---------------------------- MODULE Spec2Model ----------------------------
(* Quiz session state machine of script.js: the shuffler, the answer      *)
(* evaluator and the navigation handlers, with the DOM reduced to the     *)
(* pieces of it that carry state (visible screen, final-score modal,      *)
(* alert, final-score text).                                              *)
(*                                                                        *)
(* JavaScript strings are sequences of one-character strings, so that     *)
(* trim() and toLowerCase() are computed.  Indices are 0-based as in the  *)
(* source; a TLA+ sequence s holds the JavaScript element s[k] at k + 1.  *)
EXTENDS Integers, Sequences, FiniteSets, TLC

VARIABLES
    phase,                  \* which screen is shown: "loading", "quiz", "error"
    modalShown,             \* finalScoreModal has class 'show'
    fetched,                \* what response.json() produced (history variable)
    originalQuestions,      \* script.js:8
    questions,              \* script.js:7
    currentQuestionIndex,   \* script.js:9
    userAnswers,            \* script.js:10
    score,                  \* script.js:11
    alerted,                \* the last handler called alert()
    scoreMessage,           \* what showFinalScore wrote: percentage and band
    lastOp,                 \* name of the last handler that ran (history variable)
    ignored,                \* the last handler changed nothing: it took its early
                            \* return or skipped its body (history variable)
    array,                  \* shuffleArray: the caller's array
    shuffled,               \* shuffleArray: the local 'shuffled'
    loopI,                  \* shuffleArray: the loop variable i
    draws,                  \* shuffleArray: the values of j drawn so far (history variable)
    pcShuffle               \* shuffleArray: "idle", "loop", "done"

quizVars == <<phase, modalShown, fetched, originalQuestions, questions,
              currentQuestionIndex, userAnswers, score, alerted, scoreMessage, lastOp,
              ignored>>
shuffleVars == <<array, shuffled, loopI, draws, pcShuffle>>
vars == <<phase, modalShown, fetched, originalQuestions, questions,
          currentQuestionIndex, userAnswers, score, alerted, scoreMessage, lastOp,
          ignored, array, shuffled, loopI, draws, pcShuffle>>

--------------------------------------------------------------------------
(* Bounds *)

\* longest array handed to shuffleArray in the stand-alone shuffle specification
MaxLen == 3

\* largest number of questions in a fetched question bank
MaxQuestions == 2

\* largest number of questions of a session whose final score is computed
MaxTotal == 40

\* bits of the significand of a JavaScript number
MantissaBits == 53

--------------------------------------------------------------------------
(* Generic helpers *)

Range(s) == {s[k] : k \in 1..Len(s)}

\* number of positions of s that hold x
Count(s, x) == Cardinality({k \in 1..Len(s) : s[k] = x})

\* s and t hold the same elements with the same multiplicities
SameMultiset(s, t) ==
    /\ Len(s) = Len(t)
    /\ \A x \in Range(s) \cup Range(t) : Count(s, x) = Count(t, x)

RECURSIVE Factorial(_)
Factorial(n) == IF n <= 1 THEN 1 ELSE n * Factorial(n - 1)

\* all sequences of length n over S
SeqsOfLen(S, n) == [1..n -> S]

--------------------------------------------------------------------------
(* shuffleArray, script.js:18-25 *)

\* Mutant of ShuffledIsCopy: 'const shuffled = array', the shuffle runs in place.
ShuffledIsAlias == FALSE

\* line 19: [...array] is a new array object, distinct from the argument
ShuffledIsCopy == TRUE

\* Mutant of DrawRange: Math.floor(Math.random() * i), j never equals i.
DrawRangeBelow(iv) == 0..(iv - 1)

\* Mutant of DrawRange: Math.floor(Math.random() * i) + 1, j is never 0.
DrawRangeFromOne(iv) == 1..iv

\* line 21: Math.floor(Math.random() * (i + 1)) for Math.random() in [0,1)
DrawRange(iv) == 0..iv

\* Mutant of SwapElements: shuffled[i] = shuffled[j] without the exchange.
SwapElementsOverwrite(sh, iv, jv) == [sh EXCEPT ![iv + 1] = sh[jv + 1]]

\* line 22: [shuffled[i], shuffled[j]] = [shuffled[j], shuffled[i]]
SwapElements(sh, iv, jv) ==
    [sh EXCEPT ![iv + 1] = sh[jv + 1], ![jv + 1] = sh[iv + 1]]

\* The draws of one call on an array of length n: a value of j for each
\* i = n-1 down to 1 (the function maps i to j).
DrawSeqs(n) == {d \in [1..(n - 1) -> 0..(n - 1)] : \A iv \in 1..(n - 1) : d[iv] \in DrawRange(iv)}

\* lines 20-23: the loop from i = iv down to 1 under the draws d
RECURSIVE ShuffleLoop(_, _, _)
ShuffleLoop(sh, iv, d) ==
    IF iv > 0 THEN ShuffleLoop(SwapElements(sh, iv, d[iv]), iv - 1, d) ELSE sh

\* shuffleArray(arr) under the draws d: the returned array, and the argument
\* array as the call leaves it.
ShuffleArray(arr, d) ==
    LET result == ShuffleLoop(arr, Len(arr) - 1, d)
    IN  [result |-> result,
         array  |-> IF ShuffledIsCopy THEN arr ELSE result]

\* every array shuffleArray(arr) can return
ShuffleOutcomes(arr) == {ShuffleArray(arr, d).result : d \in DrawSeqs(Len(arr))}

--------------------------------------------------------------------------
(* JavaScript values *)

\* A value held in userAnswers or in a slot of a drag-and-drop answer array:
\* null, a string, or an array of such values.
Null == [kind |-> "null", str |-> <<>>, arr |-> <<>>]
Str(s) == [kind |-> "string", str |-> s, arr |-> <<>>]
Arr(a) == [kind |-> "array", str |-> <<>>, arr |-> a]

\* new Array(n).fill(null), script.js:117, 670, 717
ArrayOfNulls(n) == [k \in 1..n |-> Null]

WhiteSpace == {" ", "\t", "\n"}

RECURSIVE TrimStart(_)
TrimStart(s) ==
    IF s = <<>> THEN s
    ELSE IF Head(s) \in WhiteSpace THEN TrimStart(Tail(s)) ELSE s

RECURSIVE TrimEnd(_)
TrimEnd(s) ==
    IF s = <<>> THEN s
    ELSE IF s[Len(s)] \in WhiteSpace THEN TrimEnd(SubSeq(s, 1, Len(s) - 1)) ELSE s

\* String.prototype.trim
Trim(s) == TrimEnd(TrimStart(s))

UpperLetters == <<"A","B","C","D","E","F","G","H","I","J","K","L","M",
                  "N","O","P","Q","R","S","T","U","V","W","X","Y","Z">>
LowerLetters == <<"a","b","c","d","e","f","g","h","i","j","k","l","m",
                  "n","o","p","q","r","s","t","u","v","w","x","y","z">>

LowerChar(c) ==
    IF \E k \in 1..Len(UpperLetters) : UpperLetters[k] = c
    THEN LowerLetters[CHOOSE k \in 1..Len(UpperLetters) : UpperLetters[k] = c]
    ELSE c

\* Mutant of ToLowerCase: the letters keep their case.
ToLowerCaseKeepsCase(s) == s

\* String.prototype.toLowerCase on the letters A-Z, line 530
ToLowerCase(s) == [k \in 1..Len(s) |-> LowerChar(s[k])]

--------------------------------------------------------------------------
(* Question records (the JSON the page fetches).  Every record carries all  *)
(* fields; a field the JSON leaves out is the empty sequence, which the     *)
(* code treats like the missing field (nothing to shuffle, no sub-question, *)
(* no blank).                                                               *)

Question(topic, type, options, correctAnswer, subQuestions, blanks, correctOrder) ==
    [topic |-> topic, type |-> type, options |-> options,
     correctAnswer |-> correctAnswer, questions |-> subQuestions,
     blanks |-> blanks, correctOrder |-> correctOrder]

SubQuestion(options, correctAnswer) ==
    [options |-> options, correctAnswer |-> correctAnswer]

Blank(sentencePart, options) ==
    [sentencePart |-> sentencePart, options |-> options]

w_at  == <<"a","t">>
w_in  == <<"i","n">>
w_Cat == <<"C","a","t">>
w_is  == <<"i","s">>
w_are == <<"a","r","e">>
w_we  == <<"w","e">>
w_run == <<"r","u","n">>
w_yes == <<"y","e","s">>
w_no  == <<"n","o">>

QMultipleChoice ==
    Question("prepositions", "multiple_choice", <<w_at, w_in>>, w_at, <<>>, <<>>, <<>>)
QFillInTheBlank ==
    Question("animals", "fill_in_the_blank", <<>>, w_Cat, <<>>, <<>>, <<>>)
QDragAndDrop ==
    Question("word order", "drag_and_drop", <<>>, <<>>, <<>>,
             <<Blank("Today ", <<w_run, w_we>>), Blank(" will ", <<w_run>>), Blank(".", <<>>)>>,
             <<w_we, w_run>>)
QDropdown ==
    Question("to be", "dropdown", <<w_is, w_are>>, w_are, <<>>, <<>>, <<>>)
QReadingPassage ==
    Question("reading", "reading_passage", <<>>, <<>>,
             <<SubQuestion(<<w_yes, w_no>>, w_no), SubQuestion(<<w_yes>>, w_yes)>>,
             <<>>, <<>>)
QUnknown ==
    Question("essay", "essay", <<>>, w_Cat, <<>>, <<>>, <<>>)
QReadingNoSub ==
    Question("reading 2", "reading_passage", <<>>, <<>>, <<>>, <<>>, <<>>)

QuestionPool ==
    <<QMultipleChoice, QFillInTheBlank, QUnknown, QDropdown,
      QDragAndDrop, QReadingNoSub, QReadingPassage>>

\* The question banks response.json() may produce: every run of up to
\* MaxQuestions consecutive pool questions, the empty array included.
Banks ==
    {SubSeq(QuestionPool, w[1], w[1] + w[2] - 1) :
        w \in {v \in (1..Len(QuestionPool)) \X (0..MaxQuestions) :
                    v[1] + v[2] - 1 <= Len(QuestionPool)}}

\* what the user can type into a fill-in-the-blank input
TypedValues ==
    {<<" ", " ">>, <<" ", "c", "a", "t", " ">>, <<"d", "o", "g">>}

--------------------------------------------------------------------------
(* shuffleQuestionsAndAnswers, script.js:33-64 *)

\* all sequences t with t[k] \in ss[k]
RECURSIVE SeqProduct(_)
SeqProduct(ss) ==
    IF ss = <<>> THEN {<<>>}
    ELSE {<<h>> \o t : h \in Head(ss), t \in SeqProduct(Tail(ss))}

\* The draws made while one question is processed: those of the shuffle of
\* its options and those of the shuffle of each sub-question's options.
QuestionDraws(question) ==
    {[opt |-> a, sub |-> b] :
        a \in DrawSeqs(Len(question.options)),
        b \in SeqProduct([s \in 1..Len(question.questions) |->
                              DrawSeqs(Len(question.questions[s].options))])}

\* lines 38-63, the body of the map callback for one question under the
\* draws dq: 'session' is the returned copy, 'source' the argument object
\* as the callback leaves it (the copy is shallow: until line 43 assigns it,
\* shuffledQuestion.options is the source's own array).
\* the elements of arr in reverse order
Reverse(arr) == [k \in 1..Len(arr) |-> arr[Len(arr) + 1 - k]]

\* Mutant of ShallowCopy: the copy carries correctOrder rearranged.
ShallowCopyReordersCorrectOrder(question) ==
    [question EXCEPT !.correctOrder = Reverse(question.correctOrder)]

\* Mutant of ShallowCopy: the copy is made without correctAnswer.
ShallowCopyLosesCorrectAnswer(question) == [question EXCEPT !.correctAnswer = <<>>]

\* line 39: { ...question }, every field of the question carried over as it
\* is; lines 59-62 return the copy with blanks and correctOrder untouched.
ShallowCopy(question) == question

ShuffleQuestion(question, dq) ==
    LET opt == ShuffleArray(question.options, dq.opt)
        sub(s) == ShuffleArray(question.questions[s].options, dq.sub[s])
        isPassage == question.type = "reading_passage"
    IN  [session |->
            [ShallowCopy(question) EXCEPT
                !.options = opt.result,
                !.questions = IF isPassage
                              THEN [s \in 1..Len(question.questions) |->
                                       [question.questions[s] EXCEPT !.options = sub(s).result]]
                              ELSE question.questions],
         source |->
            [question EXCEPT
                !.options = opt.array,
                !.questions = IF isPassage
                              THEN [s \in 1..Len(question.questions) |->
                                       [question.questions[s] EXCEPT !.options = sub(s).array]]
                              ELSE question.questions]]

\* shuffleQuestionsAndAnswers(questionsArray) under the draws d0 (question
\* order) and dqs (per question, in shuffled order): 'result' is the returned
\* list, 'source' is questionsArray as the call leaves it.
ShuffleQuestionsAndAnswers(questionsArray, d0, dqs) ==
    LET top == ShuffleArray(questionsArray, d0)
        n == Len(questionsArray)
        per(k) == ShuffleQuestion(top.result[k], dqs[k])
        posOf(m) == CHOOSE k \in 1..n : top.result[k] = top.array[m]
    IN  [result |-> [k \in 1..n |-> per(k).session],
         source |-> [m \in 1..n |-> per(posOf(m)).source]]

\* the draws made per question once the draws d0 have fixed the order
QuestionsDraws(questionsArray, d0) ==
    SeqProduct([k \in 1..Len(questionsArray) |->
                    QuestionDraws(ShuffleArray(questionsArray, d0).result[k])])

\* every outcome of shuffleQuestionsAndAnswers(questionsArray)
ShuffleQAOutcomes(questionsArray) ==
    UNION {
        {ShuffleQuestionsAndAnswers(questionsArray, d0, dqs) :
            dqs \in QuestionsDraws(questionsArray, d0)} :
        d0 \in DrawSeqs(Len(questionsArray))}

--------------------------------------------------------------------------
(* Answer evaluation, script.js:499-585 *)

\* Mutant of SlotMatches: an empty slot is skipped by the comparison.
SlotMatchesOrEmpty(slot, word) == slot = Null \/ slot = Str(word)

\* line 544: userAnswer[i] === question.correctOrder[i]
SlotMatches(slot, word) == slot = Str(word)

\* Mutant of EvaluatedSubQuestion: the last sub-question is taken.
EvaluatedSubQuestionLast(question) == question.questions[Len(question.questions)]

\* line 534: question.questions[0]
EvaluatedSubQuestion(question) == question.questions[1]

\* Mutant of OrderMatches: the words are compared without their positions.
OrderMatchesAsBag(arr, correctOrder) ==
    SameMultiset(arr, [k \in 1..Len(correctOrder) |-> Str(correctOrder[k])])

\* lines 541-548: the lengths agree and every position matches
OrderMatches(arr, correctOrder) ==
    /\ Len(arr) = Len(correctOrder)
    /\ \A k \in 1..Len(arr) : SlotMatches(arr[k], correctOrder[k])

\* Mutant of NonBlank: any string counts, as in 'userAnswer !== null'.
NonBlankAlways(s) == TRUE

\* line 575: userAnswer.trim().length > 0
NonBlank(s) == Len(Trim(s)) > 0

\* isCorrect(questionIndex), lines 517-555, on the lists qs and ans
IsCorrect(qs, ans, questionIndex) ==
    LET question == qs[questionIndex + 1]
        userAnswer == ans[questionIndex + 1]
    IN  IF userAnswer = Null THEN FALSE
        ELSE CASE question.type \in {"multiple_choice", "dropdown"} ->
                    userAnswer = Str(question.correctAnswer)
               [] question.type = "fill_in_the_blank" ->
                    /\ userAnswer.kind = "string"
                    /\ Trim(ToLowerCase(userAnswer.str)) = Trim(ToLowerCase(question.correctAnswer))
               [] question.type = "reading_passage" ->
                    IF Len(question.questions) > 0
                    THEN userAnswer = Str(EvaluatedSubQuestion(question).correctAnswer)
                    ELSE FALSE
               [] question.type = "drag_and_drop" ->
                    IF userAnswer.kind = "array"
                    THEN OrderMatches(userAnswer.arr, question.correctOrder)
                    ELSE FALSE
               [] OTHER -> FALSE

\* checkIfAnswered(), lines 561-585, for the question at questionIndex
CheckIfAnswered(qs, ans, questionIndex) ==
    LET question == qs[questionIndex + 1]
        userAnswer == ans[questionIndex + 1]
    IN  IF userAnswer = Null THEN FALSE
        ELSE CASE question.type \in {"multiple_choice", "dropdown", "reading_passage"} ->
                    userAnswer # Null
               [] question.type = "fill_in_the_blank" ->
                    /\ userAnswer.kind = "string"
                    /\ NonBlank(userAnswer.str)
               [] question.type = "drag_and_drop" ->
                    IF userAnswer.kind = "array"
                    THEN /\ Len(userAnswer.arr) = Len(question.correctOrder)
                         /\ \A k \in 1..Len(userAnswer.arr) : userAnswer.arr[k] # Null
                    ELSE FALSE
               [] OTHER -> FALSE

\* lines 502-507: the loop from i = iv with the running count acc
RECURSIVE UpdateScoreLoop(_, _, _, _)
UpdateScoreLoop(qs, ans, iv, acc) ==
    IF iv < Len(qs)
    THEN UpdateScoreLoop(qs, ans, iv + 1,
                         IF ans[iv + 1] # Null /\ IsCorrect(qs, ans, iv) THEN acc + 1 ELSE acc)
    ELSE acc

\* Mutant of UpdateScore: without 'score = 0', the count is added to the old score.
UpdateScoreNoReset(qs, ans) == UpdateScoreLoop(qs, ans, 0, score)

\* Mutant of UpdateScore: only the current question is looked at.
UpdateScoreCurrentOnly(qs, ans) ==
    IF IsCorrect(qs, ans, currentQuestionIndex) THEN 1 ELSE 0

\* updateScore(), lines 499-510: the value it leaves in score
UpdateScore(qs, ans) == UpdateScoreLoop(qs, ans, 0, 0)

(* JavaScript numbers are IEEE 754 doubles.  A positive double is modelled  *)
(* as [m, e]: m its significand, MantissaBits bits from the leading 1, and *)
(* e its exponent, for the value 0.m * 2^e.  Division and multiplication   *)
(* round the exact result to the nearest double, ties to even.             *)

RECURSIVE Pow2(_)
Pow2(k) == IF k = 0 THEN 1 ELSE 2 * Pow2(k - 1)

\* for 0 < a < b: the zero bits between the binary point and the leading 1 of a / b
RECURSIVE LeadingZeros(_, _)
LeadingZeros(a, b) == IF 2 * a >= b THEN 0 ELSE 1 + LeadingZeros(2 * a, b)

\* for a >= b: the bits of a / b before the binary point
RECURSIVE IntegerBits(_, _)
IntegerBits(a, b) == IF a < b THEN 0 ELSE 1 + IntegerBits(a, 2 * b)

\* the arithmetic on significands is carried out in pieces of this many
\* bits, which keeps every intermediate value within 32 bits
ChunkBits == 2 * 7

\* the w bits (most significant first) of v < 2^w
FixedBits(v, w) == [k \in 1..w |-> (v \div Pow2(w - k)) % 2]

\* the next k bits of r / d after the binary point (r < d), and what remains
RECURSIVE DivideBits(_, _, _)
DivideBits(r, d, k) ==
    IF k = 0
    THEN [bits |-> <<>>, rem |-> r]
    ELSE LET w == IF k > ChunkBits THEN ChunkBits ELSE k
             rest == DivideBits((r * Pow2(w)) % d, d, k - w)
         IN  [bits |-> FixedBits((r * Pow2(w)) \div d, w) \o rest.bits,
              rem |-> rest.rem]

\* the bits (most significant first) of the number one above the one of bits
Increment(bits) ==
    LET zeros == {k \in 1..Len(bits) : bits[k] = 0}
        last == CHOOSE k \in zeros : \A z \in zeros : z <= k
    IN  IF zeros = {}
        THEN <<1>> \o [k \in 1..Len(bits) |-> 0]
        ELSE [k \in 1..Len(bits) |->
                 IF k < last THEN bits[k] ELSE IF k = last THEN 1 ELSE 0]

\* the double nearest to 0.bits * 2^e, rounded up or down as up tells
RoundedDouble(bits, e, up) ==
    IF ~up
    THEN [m |-> bits, e |-> e]
    ELSE IF Len(Increment(bits)) > Len(bits)
         THEN [m |-> SubSeq(Increment(bits), 1, Len(bits)), e |-> e + 1]
         ELSE [m |-> Increment(bits), e |-> e]

\* the double a / b of the integers a > 0, b > 0
DoubleDivide(a, b) ==
    LET e == IF a >= b THEN IntegerBits(a, b) ELSE 0 - LeadingZeros(a, b)
        num == IF e < 0 THEN a * Pow2(0 - e) ELSE a
        den == IF e > 0 THEN b * Pow2(e) ELSE b
        q == DivideBits(num, den, MantissaBits)
        up == \/ 2 * q.rem > den
              \/ 2 * q.rem = den /\ q.bits[MantissaBits] = 1
    IN  RoundedDouble(q.bits, e, up)

\* the bits (most significant first) of the integer v
RECURSIVE BitsOf(_)
BitsOf(v) == IF v = 0 THEN <<>> ELSE BitsOf(v \div 2) \o <<v % 2>>

\* the integer of the bits (most significant first)
RECURSIVE IntOf(_)
IntOf(bits) ==
    IF bits = <<>> THEN 0
    ELSE 2 * IntOf(SubSeq(bits, 1, Len(bits) - 1)) + bits[Len(bits)]

\* the bits of (the integer of bits) * c + carry * 2^Len(bits), for c < 2^16
RECURSIVE TimesBits(_, _, _)
TimesBits(bits, c, carry) ==
    IF bits = <<>>
    THEN BitsOf(carry)
    ELSE LET w == IF Len(bits) > ChunkBits THEN ChunkBits ELSE Len(bits)
             t == IntOf(SubSeq(bits, Len(bits) - w + 1, Len(bits))) * c + carry
         IN  TimesBits(SubSeq(bits, 1, Len(bits) - w), c, t \div Pow2(w))
                \o FixedBits(t % Pow2(w), w)

\* the double x * c of the double x and the integer c > 1
DoubleTimes(x, c) ==
    LET p == TimesBits(x.m, c, 0)
        keep == SubSeq(p, 1, MantissaBits)
        rest == SubSeq(p, MantissaBits + 1, Len(p))
        up == /\ Len(rest) > 0
              /\ rest[1] = 1
              /\ \/ \E k \in 2..Len(rest) : rest[k] = 1
                 \/ keep[MantissaBits] = 1
    IN  RoundedDouble(keep, x.e + Len(p) - MantissaBits, up)

\* Math.round(x) of a positive double below 2^MantissaBits: the integer
\* part, plus one when the fraction is a half or more
MathRound(x) ==
    IF x.e < 0 THEN 0
    ELSE IntOf(SubSeq(x.m, 1, x.e)) + (IF x.e < MantissaBits THEN x.m[x.e + 1] ELSE 0)

\* Math.round((s / n) * 100), line 639, for s >= 0, n > 0
Percentage(s, n) ==
    IF s = 0 THEN 0 ELSE MathRound(DoubleTimes(DoubleDivide(s, n), 100))

\* lines 641-651
BandMessage(percentage) ==
    IF percentage >= 90 THEN "Excellent work! You are doing great!"
    ELSE IF percentage >= 70 THEN "Good job! Keep practicing to improve."
    ELSE IF percentage >= 50 THEN "Not bad! There is room for improvement."
    ELSE "Keep studying! Practice makes perfect."

NoScoreMessage == [percentage |-> 0, message |-> ""]

--------------------------------------------------------------------------
(* The page: handlers of script.js.  The navigation and answer handlers   *)
(* run once initializeQuiz has displayed the quiz content; each answer    *)
(* handler runs on the question type whose view attaches it               *)
(* (displayQuestion, lines 158-177) with the values that view offers.     *)

CurrentQuestion == questions[currentQuestionIndex + 1]

\* The buttons, options, inputs and drop zones can be operated: the quiz
\* content is on display (initializeQuiz has run; the loading and the error
\* screen carry no controls).
ControlsEnabled == phase = "quiz"

\* Mutant of StoreAnswer: the value goes to the first slot.
StoreAnswerAtFirst(ans, idx, value) == [ans EXCEPT ![1] = value]

\* lines 474 and 490: userAnswers[currentQuestionIndex] = value
StoreAnswer(ans, idx, value) == [ans EXCEPT ![idx + 1] = value]

\* Mutant of NoQuestionsFound: the emptiness test is missing.
NoQuestionsFoundNever(bank) == FALSE

\* line 83: !originalQuestions || originalQuestions.length === 0
NoQuestionsFound(bank) == Len(bank) = 0

\* Mutant of EmptySlots: one slot per entry of blanks.
EmptySlotsPerBlank(question) == Arr(ArrayOfNulls(Len(question.blanks)))

\* line 717: new Array(question.correctOrder.length).fill(null)
EmptySlots(question) == Arr(ArrayOfNulls(Len(question.correctOrder)))

\* Mutant of BlankFilled: drop loses its guard.
BlankFilledNever(ans, idx, blankIndex) == FALSE

\* line 721: userAnswers[currentQuestionIndex][blankIndex] !== null
BlankFilled(ans, idx, blankIndex) == ans[idx + 1].arr[blankIndex + 1] # Null

\* Mutant of AlreadySet: the handlers lose their guard.
AlreadySetNever(ans, idx) == FALSE

\* lines 470 and 486: userAnswers[currentQuestionIndex] !== null
AlreadySet(ans, idx) == ans[idx + 1] # Null

\* Mutant of NavigationBlocked: nextQuestion loses its guard.
NavigationBlockedNever(qs, ans, idx) == FALSE

\* Mutant of NavigationBlocked: the slot is compared with null, as in setAnswer.
NavigationBlockedOnNull(qs, ans, idx) == ans[idx + 1] = Null /\ idx < Len(qs) - 1

\* line 602: !checkIfAnswered() && currentQuestionIndex < questions.length - 1
NavigationBlocked(qs, ans, idx) ==
    ~CheckIfAnswered(qs, ans, idx) /\ idx < Len(qs) - 1

\* Mutant of HasNext: compares with questions.length.
HasNextOffByOne(idx, n) == idx < n

\* line 607: currentQuestionIndex < questions.length - 1
HasNext(idx, n) == idx < n - 1

\* Mutant of PreviousIndex: decrements without the test.
PreviousIndexUnguarded(idx) == idx - 1

\* lines 619-620: the index previousQuestion leaves
PreviousIndex(idx) == IF idx > 0 THEN idx - 1 ELSE idx

\* the options the current view renders with onclick="selectOption(...)"
\* (lines 201, 285, 327-332)
ClickableOptions ==
    CASE CurrentQuestion.type \in {"multiple_choice", "dropdown"} ->
            Range(CurrentQuestion.options)
      [] CurrentQuestion.type = "reading_passage" ->
            IF Len(CurrentQuestion.questions) > 0
            THEN Range(CurrentQuestion.questions[1].options)
            ELSE {}
      [] OTHER -> {}

\* the words displayDragAndDrop renders as drag items, lines 377-398
DragItems(question) ==
    UNION {Range(question.blanks[b].options) : b \in 1..Len(question.blanks)}
        \cup Range(question.correctOrder)

QuizInit ==
    /\ phase = "loading"
    /\ modalShown = FALSE
    /\ fetched = <<>>
    /\ originalQuestions = <<>>
    /\ questions = <<>>
    /\ currentQuestionIndex = 0
    /\ userAnswers = <<>>
    /\ score = 0
    /\ alerted = FALSE
    /\ scoreMessage = NoScoreMessage
    /\ lastOp = "none"
    /\ ignored = FALSE

ShuffleIdle ==
    /\ array = <<>>
    /\ shuffled = <<>>
    /\ loopI = 0
    /\ draws = <<>>
    /\ pcShuffle = "idle"

Init == QuizInit /\ ShuffleIdle

\* loadQuestions(), lines 71-96, with initializeQuiz(), lines 112-126
LoadQuestions ==
    /\ phase = "loading"
    /\ lastOp' = "loadQuestions"
    /\ alerted' = FALSE
    /\ ignored' = FALSE
    /\ UNCHANGED <<modalShown, scoreMessage, shuffleVars>>
    /\ \/ \* fetch rejects, response.ok is false, or response.json() throws
          /\ phase' = "error"
          /\ UNCHANGED <<fetched, originalQuestions, questions,
                         currentQuestionIndex, userAnswers, score>>
       \/ \E bank \in Banks :
            /\ fetched' = bank
            /\ IF NoQuestionsFound(bank)
               THEN \* line 80 has assigned originalQuestions before line 83 throws
                    /\ originalQuestions' = bank
                    /\ phase' = "error"
                    /\ UNCHANGED <<questions, currentQuestionIndex, userAnswers, score>>
               ELSE \E out \in ShuffleQAOutcomes(bank) :
                        /\ originalQuestions' = out.source
                        /\ questions' = out.result
                        /\ userAnswers' = ArrayOfNulls(Len(out.result))
                        /\ currentQuestionIndex' = 0
                        /\ score' = UpdateScore(out.result, ArrayOfNulls(Len(out.result)))
                        /\ phase' = "quiz"

\* selectOption(option), lines 468-478
SelectOption ==
    /\ ControlsEnabled
    /\ \E option \in ClickableOptions :
        IF AlreadySet(userAnswers, currentQuestionIndex)
        THEN UNCHANGED <<userAnswers, score>>
        ELSE /\ userAnswers' = StoreAnswer(userAnswers, currentQuestionIndex, Str(option))
             /\ score' = UpdateScore(questions, userAnswers')
    /\ lastOp' = "selectOption"
    /\ ignored' = AlreadySet(userAnswers, currentQuestionIndex)
    /\ alerted' = FALSE
    /\ UNCHANGED <<phase, modalShown, fetched, originalQuestions, questions,
                   currentQuestionIndex, scoreMessage, shuffleVars>>

\* setAnswer(value), lines 484-494
SetAnswer ==
    /\ ControlsEnabled
    /\ CurrentQuestion.type = "fill_in_the_blank"
    /\ \E value \in TypedValues :
        IF AlreadySet(userAnswers, currentQuestionIndex)
        THEN UNCHANGED <<userAnswers, score>>
        ELSE /\ userAnswers' = StoreAnswer(userAnswers, currentQuestionIndex, Str(Trim(value)))
             /\ score' = UpdateScore(questions, userAnswers')
    /\ lastOp' = "setAnswer"
    /\ ignored' = AlreadySet(userAnswers, currentQuestionIndex)
    /\ alerted' = FALSE
    /\ UNCHANGED <<phase, modalShown, fetched, originalQuestions, questions,
                   currentQuestionIndex, scoreMessage, shuffleVars>>

\* drop(ev), lines 708-731: blankIndex is the drop zone's data-blank, data
\* the dragged word
Drop ==
    /\ ControlsEnabled
    /\ CurrentQuestion.type = "drag_and_drop"
    /\ \E blankIndex \in 0..(Len(CurrentQuestion.correctOrder) - 1),
          data \in DragItems(CurrentQuestion) :
        LET initialized ==
                IF userAnswers[currentQuestionIndex + 1] = Null
                THEN [userAnswers EXCEPT ![currentQuestionIndex + 1] =
                         EmptySlots(CurrentQuestion)]
                ELSE userAnswers
        IN  IF BlankFilled(initialized, currentQuestionIndex, blankIndex)
            THEN /\ userAnswers' = initialized
                 /\ ignored' = TRUE
                 /\ UNCHANGED score
            ELSE /\ userAnswers' =
                        [initialized EXCEPT ![currentQuestionIndex + 1].arr[blankIndex + 1] = Str(data)]
                 /\ ignored' = FALSE
                 /\ score' = UpdateScore(questions, userAnswers')
    /\ lastOp' = "drop"
    /\ alerted' = FALSE
    /\ UNCHANGED <<phase, modalShown, fetched, originalQuestions, questions,
                   currentQuestionIndex, scoreMessage, shuffleVars>>

\* nextQuestion(), lines 600-613, with showFinalScore(), lines 628-656
NextQuestion ==
    /\ ControlsEnabled
    /\ lastOp' = "nextQuestion"
    /\ IF NavigationBlocked(questions, userAnswers, currentQuestionIndex)
       THEN /\ alerted' = TRUE
            /\ ignored' = TRUE
            /\ UNCHANGED <<currentQuestionIndex, score, scoreMessage, modalShown>>
       ELSE /\ alerted' = FALSE
            /\ ignored' = FALSE
            /\ IF HasNext(currentQuestionIndex, Len(questions))
               THEN /\ currentQuestionIndex' = currentQuestionIndex + 1
                    /\ UNCHANGED <<score, scoreMessage, modalShown>>
               ELSE /\ score' = UpdateScore(questions, userAnswers)
                    /\ scoreMessage' =
                         [percentage |-> Percentage(score', Len(questions)),
                          message |-> BandMessage(Percentage(score', Len(questions)))]
                    /\ modalShown' = TRUE
                    /\ UNCHANGED currentQuestionIndex
    /\ UNCHANGED <<phase, fetched, originalQuestions, questions, userAnswers, shuffleVars>>

\* previousQuestion(), lines 618-623
PreviousQuestion ==
    /\ ControlsEnabled
    /\ currentQuestionIndex' = PreviousIndex(currentQuestionIndex)
    /\ ignored' = (currentQuestionIndex' = currentQuestionIndex)
    /\ lastOp' = "previousQuestion"
    /\ alerted' = FALSE
    /\ UNCHANGED <<phase, modalShown, fetched, originalQuestions, questions,
                   userAnswers, score, scoreMessage, shuffleVars>>

\* Mutant of RestartQuiz: the answers are not reset.
RestartQuizKeepsAnswers ==
    /\ ControlsEnabled
    /\ modalShown' = FALSE
    /\ \E out \in ShuffleQAOutcomes(originalQuestions) :
        /\ originalQuestions' = out.source
        /\ questions' = out.result
        /\ currentQuestionIndex' = 0
        /\ UNCHANGED userAnswers
        /\ score' = UpdateScore(out.result, userAnswers)
    /\ lastOp' = "restartQuiz"
    /\ ignored' = FALSE
    /\ alerted' = FALSE
    /\ UNCHANGED <<phase, fetched, scoreMessage, shuffleVars>>

\* restartQuiz(), lines 662-677
RestartQuiz ==
    /\ ControlsEnabled
    /\ modalShown' = FALSE
    /\ \E out \in ShuffleQAOutcomes(originalQuestions) :
        /\ originalQuestions' = out.source
        /\ questions' = out.result
        /\ currentQuestionIndex' = 0
        /\ userAnswers' = ArrayOfNulls(Len(out.result))
        /\ score' = UpdateScore(out.result, ArrayOfNulls(Len(out.result)))
    /\ lastOp' = "restartQuiz"
    /\ ignored' = FALSE
    /\ alerted' = FALSE
    /\ UNCHANGED <<phase, fetched, scoreMessage, shuffleVars>>

Next ==
    \/ LoadQuestions
    \/ SelectOption
    \/ SetAnswer
    \/ Drop
    \/ NextQuestion
    \/ PreviousQuestion
    \/ RestartQuiz

Spec == Init /\ [][Next]_vars

--------------------------------------------------------------------------
(* The last step of a session: nextQuestion on the last question, for      *)
(* sessions of up to MaxTotal questions                                    *)

\* a session of n dropdown questions, the first s of them answered correctly
\* and the others wrongly, open at its last question
InitFinalScore ==
    /\ phase = "quiz"
    /\ modalShown = FALSE
    /\ questions \in {[k \in 1..n |-> QDropdown] : n \in 1..MaxTotal}
    /\ originalQuestions = questions
    /\ fetched = questions
    /\ currentQuestionIndex = Len(questions) - 1
    /\ userAnswers \in
          {[k \in 1..Len(questions) |-> IF k <= s THEN Str(w_are) ELSE Str(w_is)] :
              s \in 0..Len(questions)}
    /\ score = UpdateScore(questions, userAnswers)
    /\ alerted = FALSE
    /\ scoreMessage = NoScoreMessage
    /\ lastOp = "selectOption"
    /\ ignored = FALSE
    /\ ShuffleIdle

NextFinalScore == NextQuestion

SpecFinalScore == InitFinalScore /\ [][NextFinalScore]_vars

--------------------------------------------------------------------------
(* checkIfAnswered applied by nextQuestion to any question and any stored  *)
(* value, the values the handlers never store included                     *)

\* strings a slot may hold: empty, blank, padded and plain
StoredStrings ==
    {<<>>, <<" ">>, <<" ", " ">>, <<" ", "c", " ">>, <<"c", "a", "t">>,
     w_at, w_are, w_no, w_yes, <<" ", "a", "t">>}

\* arrays of up to MaxLen slots, each null or a word
StoredArrays ==
    UNION {SeqsOfLen({Null, Str(w_we), Str(w_run)}, n) : n \in 0..MaxLen}

\* the values of userAnswers[i] that the evaluator has a result for when
\* the question is q (String.prototype.trim exists on strings only)
StoredValues(q) ==
    {Null} \cup {Str(v) : v \in StoredStrings}
           \cup (IF q.type = "fill_in_the_blank" THEN {}
                  ELSE {Arr(a) : a \in StoredArrays})

\* a session of two questions open at its first question, which is any
\* question with any stored value
InitAnswered ==
    /\ phase = "quiz"
    /\ modalShown = FALSE
    /\ questions \in {<<q, QMultipleChoice>> : q \in Range(QuestionPool)}
    /\ originalQuestions = questions
    /\ fetched = questions
    /\ currentQuestionIndex = 0
    /\ userAnswers \in {<<v, Null>> : v \in StoredValues(questions[1])}
    /\ score = UpdateScore(questions, userAnswers)
    /\ alerted = FALSE
    /\ scoreMessage = NoScoreMessage
    /\ lastOp = "none"
    /\ ignored = FALSE
    /\ ShuffleIdle

NextAnswered == NextQuestion

SpecAnswered == InitAnswered /\ [][NextAnswered]_vars

--------------------------------------------------------------------------
(* shuffleArray run one loop iteration at a time on its own *)

\* the arrays the stand-alone specification shuffles
ShuffleInputs == UNION {SeqsOfLen(1..MaxLen, n) : n \in 0..MaxLen}

InitShuffle ==
    /\ QuizInit
    /\ array \in ShuffleInputs
    /\ shuffled = <<>>
    /\ loopI = 0
    /\ draws = <<>>
    /\ pcShuffle = "idle"

\* lines 19-20: copy the argument, i = shuffled.length - 1
ShuffleCall ==
    /\ pcShuffle = "idle"
    /\ shuffled' = array
    /\ loopI' = Len(array) - 1
    /\ pcShuffle' = "loop"
    /\ UNCHANGED <<array, draws, quizVars>>

\* lines 20-23: one iteration
ShuffleStep ==
    /\ pcShuffle = "loop"
    /\ loopI > 0
    /\ \E j \in DrawRange(loopI) :
        /\ shuffled' = SwapElements(shuffled, loopI, j)
        /\ array' = IF ShuffledIsCopy THEN array ELSE shuffled'
        /\ draws' = Append(draws, j)
    /\ loopI' = loopI - 1
    /\ UNCHANGED <<pcShuffle, quizVars>>

\* line 24
ShuffleReturn ==
    /\ pcShuffle = "loop"
    /\ ~(loopI > 0)
    /\ pcShuffle' = "done"
    /\ UNCHANGED <<array, shuffled, loopI, draws, quizVars>>

NextShuffle == ShuffleCall \/ ShuffleStep \/ ShuffleReturn

SpecShuffle == InitShuffle /\ [][NextShuffle]_vars

--------------------------------------------------------------------------
(* Properties *)

QuizLoaded == phase = "quiz"

N == Len(questions)

ChoiceOrFillTypes ==
    {"multiple_choice", "dropdown", "reading_passage", "fill_in_the_blank"}

\* C1: first answer wins.  On every step other than a restart, the slot of a
\* choice or fill-in question that is non-null keeps its value; and a
\* selectOption or setAnswer call on such a question also leaves
\* currentQuestionIndex and score as they were.
C1_FirstAnswerWins ==
    [][ (QuizLoaded /\ lastOp' # "restartQuiz") =>
          \A k \in 1..N :
            (questions[k].type \in ChoiceOrFillTypes /\ userAnswers[k] # Null) =>
                /\ userAnswers'[k] = userAnswers[k]
                /\ (lastOp' \in {"selectOption", "setAnswer"} /\ k = currentQuestionIndex + 1) =>
                      /\ currentQuestionIndex' = currentQuestionIndex
                      /\ score' = score
      ]_vars

\* A second setAnswer has just been ignored on a question whose stored answer
\* is a non-empty string, reached again by going forward and back.
C1_Witness ==
    /\ QuizLoaded
    /\ lastOp = "setAnswer"
    /\ ignored
    /\ userAnswers[currentQuestionIndex + 1].kind = "string"
    /\ userAnswers[currentQuestionIndex + 1].str # <<>>
    /\ currentQuestionIndex = 0
    /\ N > 1
    /\ userAnswers[2] # Null

\* C2: nextQuestion on an unanswered question that is not the last one
\* changes neither the index, the answers, the score, the questions nor the
\* final-score modal, and raises the alert.
C2_AdvanceRejected ==
    [][ (/\ QuizLoaded
         /\ lastOp' = "nextQuestion"
         /\ ~CheckIfAnswered(questions, userAnswers, currentQuestionIndex)
         /\ currentQuestionIndex < N - 1) =>
          /\ currentQuestionIndex' = currentQuestionIndex
          /\ userAnswers' = userAnswers
          /\ score' = score
          /\ questions' = questions
          /\ originalQuestions' = originalQuestions
          /\ modalShown' = modalShown
          /\ phase' = phase
          /\ alerted'
      ]_vars

\* nextQuestion has just been rejected on the first, unanswered question
C2_Witness ==
    /\ QuizLoaded
    /\ lastOp = "nextQuestion"
    /\ alerted
    /\ currentQuestionIndex = 0
    /\ N > 1
    /\ userAnswers[1] = Null
    /\ ~modalShown

\* C3: once the quiz is loaded, 0 <= currentQuestionIndex < questions.length.
C3_IndexInRange ==
    QuizLoaded => (0 <= currentQuestionIndex /\ currentQuestionIndex < N)

\* nextQuestion has just run on the last question of a quiz of several questions
C3_Witness ==
    /\ QuizLoaded
    /\ lastOp = "nextQuestion"
    /\ modalShown
    /\ N > 1
    /\ currentQuestionIndex = N - 1

\* C4: previousQuestion lowers the index by one when it is positive and
\* leaves it at 0 otherwise, whether or not the current question is
\* answered, and never touches the answers, the score or the questions.
C4_Retreat ==
    [][ (QuizLoaded /\ lastOp' = "previousQuestion") =>
          /\ currentQuestionIndex > 0 => currentQuestionIndex' = currentQuestionIndex - 1
          /\ currentQuestionIndex = 0 => currentQuestionIndex' = 0
          /\ userAnswers' = userAnswers
          /\ score' = score
          /\ questions' = questions
      ]_vars

\* previousQuestion has just left an unanswered question
C4_Witness ==
    /\ QuizLoaded
    /\ lastOp = "previousQuestion"
    /\ ~ignored
    /\ currentQuestionIndex + 2 <= N
    /\ userAnswers[currentQuestionIndex + 2] = Null

\* the indices (1-based) whose answer is present and correct
CorrectSet == {k \in 1..N : userAnswers[k] # Null /\ IsCorrect(questions, userAnswers, k - 1)}

\* C5: the stored score is the number of questions whose answer is non-null
\* and correct, and running updateScore again gives the same value.
C5_ScoreIsCount ==
    QuizLoaded =>
        /\ score = Cardinality(CorrectSet)
        /\ UpdateScore(questions, userAnswers) = score

\* a drop has just completed a correct drag-and-drop answer next to another
\* correct answer and the score is 2
C5_Witness ==
    /\ QuizLoaded
    /\ lastOp = "drop"
    /\ ~ignored
    /\ score = 2
    /\ CurrentQuestion.type = "drag_and_drop"
    /\ currentQuestionIndex + 1 \in CorrectSet

\* C6: right after restartQuiz the index is 0, the score is 0, there is one
\* null answer slot per question, and the quiz is shown without the modal.
C6_RestartResets ==
    lastOp = "restartQuiz" =>
        /\ currentQuestionIndex = 0
        /\ score = 0
        /\ Len(userAnswers) = N
        /\ N = Len(originalQuestions)
        /\ \A k \in 1..N : userAnswers[k] = Null
        /\ ~modalShown
        /\ phase = "quiz"

\* restartQuiz has just run after a quiz that finished with a positive score
C6_Witness ==
    /\ lastOp = "restartQuiz"
    /\ scoreMessage.message # ""
    /\ scoreMessage.percentage > 0

\* C7: originalQuestions stays what response.json() produced, through load
\* and every later operation; and shuffleArray leaves its argument as it was
\* for each option list of the session.
C7_SourceNeverMutated ==
    /\ originalQuestions = fetched
    /\ QuizLoaded =>
         \A k \in 1..N :
            \A d \in DrawSeqs(Len(questions[k].options)) :
                ShuffleArray(questions[k].options, d).array = questions[k].options

\* after a restart the session has another question order and another option
\* order than the source
C7_Witness ==
    /\ lastOp = "restartQuiz"
    /\ N > 1
    /\ questions[1].topic # originalQuestions[1].topic
    /\ \E k \in 1..N, m \in 1..N :
          /\ questions[k].topic = originalQuestions[m].topic
          /\ questions[k].options # originalQuestions[m].options

\* the sub-questions agree up to the order of their options
SameSubQuestions(a, b) ==
    /\ Len(a) = Len(b)
    /\ \A s \in 1..Len(a) :
          /\ a[s].correctAnswer = b[s].correctAnswer
          /\ SameMultiset(a[s].options, b[s].options)

\* the same question up to the order of its options
SameQuestion(q, o) ==
    /\ q.topic = o.topic
    /\ q.type = o.type
    /\ q.correctAnswer = o.correctAnswer
    /\ q.blanks = o.blanks
    /\ q.correctOrder = o.correctOrder
    /\ SameMultiset(q.options, o.options)
    /\ SameSubQuestions(q.questions, o.questions)

\* the bijections of 1..n
Bijections(n) == {p \in [1..n -> 1..n] : \A a, b \in 1..n : p[a] = p[b] => a = b}

\* qs holds every question of os exactly once
IsPermutationOfQuestions(qs, os) ==
    /\ Len(qs) = Len(os)
    /\ \E p \in Bijections(Len(os)) : \A k \in 1..Len(os) : SameQuestion(qs[k], os[p[k]])

\* the orders of topics restartQuiz can produce from the current state
RestartOrders ==
    {[k \in 1..Len(out.result) |-> out.result[k].topic] :
        out \in ShuffleQAOutcomes(originalQuestions)}

\* every order of the topics of originalQuestions
AllOrders ==
    {[k \in 1..Len(originalQuestions) |-> originalQuestions[p[k]].topic] :
        p \in Bijections(Len(originalQuestions))}

\* C8: the session's questions are a permutation of originalQuestions (up to
\* option order), and whatever order the load or the last restart has chosen,
\* the next restart can produce every order of them.
C8_SessionIsPermutation ==
    QuizLoaded =>
        /\ IsPermutationOfQuestions(questions, originalQuestions)
        /\ lastOp \in {"loadQuestions", "restartQuiz"} => RestartOrders = AllOrders

\* after a restart the session holds the source's questions in reverse order
C8_Witness ==
    /\ lastOp = "restartQuiz"
    /\ N > 1
    /\ \A k \in 1..N : questions[k].topic = originalQuestions[N + 1 - k].topic

--------------------------------------------------------------------------
(* Properties of shuffleArray, checked on the stand-alone specification *)

\* C9: at every point of the loop and at the return, 'shuffled' has the
\* length of the argument and the same elements with the same
\* multiplicities, for arguments of every length from 0.
C9_ShuffleIsPermutation ==
    pcShuffle \in {"loop", "done"} =>
        /\ Len(shuffled) = Len(array)
        /\ SameMultiset(shuffled, array)

\* shuffleArray has returned an array with a repeated element in another order
C9_Witness ==
    /\ pcShuffle = "done"
    /\ Len(array) >= 3
    /\ Cardinality(Range(array)) < Len(array)
    /\ shuffled # array

\* the elements of arr are pairwise distinct
Distinct(arr) == Cardinality(Range(arr)) = Len(arr)

\* every arrangement of the elements of arr
PermutationsOf(arr) == {t \in SeqsOfLen(Range(arr), Len(arr)) : SameMultiset(t, arr)}

\* the draws made so far, as the function from i to j that ShuffleLoop takes
DrawsMade == [iv \in (Len(array) - Len(draws))..(Len(array) - 1) |-> draws[Len(array) - iv]]

\* C10: for an argument of n distinct elements the draw sequences map
\* one-to-one onto the permutations: every permutation is an outcome, two
\* different draw sequences give different outcomes, there are n! of each,
\* and the array returned is the outcome of the draws that were made.
C10_ShuffleIsBijection ==
    (pcShuffle = "done" /\ Distinct(array)) =>
        /\ ShuffleOutcomes(array) = PermutationsOf(array)
        /\ \A d1, d2 \in DrawSeqs(Len(array)) :
              ShuffleArray(array, d1).result = ShuffleArray(array, d2).result => d1 = d2
        /\ Cardinality(DrawSeqs(Len(array))) = Factorial(Len(array))
        /\ Cardinality(ShuffleOutcomes(array)) = Factorial(Len(array))
        /\ DrawsMade \in DrawSeqs(Len(array))
        /\ shuffled = ShuffleArray(array, DrawsMade).result

\* shuffleArray has returned three distinct elements in reverse order
C10_Witness ==
    /\ pcShuffle = "done"
    /\ Distinct(array)
    /\ Len(array) >= 3
    /\ \A k \in 1..Len(array) : shuffled[k] = array[Len(array) + 1 - k]

--------------------------------------------------------------------------
(* The session shuffler and drag and drop questions *)

\* the sentencePart values of a question's blanks, in order
SentenceParts(q) == [b \in 1..Len(q.blanks) |-> q.blanks[b].sentencePart]

\* the word pools of a question's blanks, in order
BlankOptions(q) == [b \in 1..Len(q.blanks) |-> q.blanks[b].options]

\* the question of the list os that q was prepared from
SourceOf(q, os) == CHOOSE o \in Range(os) : o.topic = q.topic

\* C11: every drag_and_drop question of the session, after the load and after
\* every restart, has the correctOrder and the sequence of sentencePart values
\* of its source question, both of originalQuestions and of the bank that was
\* fetched, equal in value and in order.
C11_SkeletonPreserved ==
    QuizLoaded =>
        \A k \in 1..N :
            questions[k].type = "drag_and_drop" =>
                \A os \in {originalQuestions, fetched} :
                    /\ \E o \in Range(os) : o.topic = questions[k].topic
                    /\ questions[k].correctOrder = SourceOf(questions[k], os).correctOrder
                    /\ SentenceParts(questions[k]) = SentenceParts(SourceOf(questions[k], os))

\* a restart has moved a drag_and_drop question of two words and three
\* sentence parts to another position than it has in the source
C11_Witness ==
    /\ lastOp = "restartQuiz"
    /\ N > 1
    /\ questions[1].type = "drag_and_drop"
    /\ originalQuestions[2].type = "drag_and_drop"
    /\ Len(questions[1].correctOrder) >= 2
    /\ Len(questions[1].blanks) >= 2

\* the orders in which the next restart can leave the word pool of blank b
\* of the question q of originalQuestions
RestartBlankOrders(q, b) ==
    {SourceOf(q, out.result).blanks[b].options :
        out \in ShuffleQAOutcomes(originalQuestions)}

\* C19: the shuffler reshuffles the word pool of every blank of every
\* drag_and_drop question: after the load and after every restart, for a
\* blank with two options or more, the next restart can leave its options
\* in every order.
C19_BlankPoolsReshuffled ==
    (QuizLoaded /\ lastOp \in {"loadQuestions", "restartQuiz"}) =>
        \A q \in Range(originalQuestions) :
            q.type = "drag_and_drop" =>
                \A b \in 1..Len(q.blanks) :
                    Len(q.blanks[b].options) >= 2 =>
                        RestartBlankOrders(q, b) = PermutationsOf(q.blanks[b].options)

\* the answer of question or sub-question x is among its options
Resolvable(x) == x.correctAnswer \in Range(x.options)

\* x of the session offers the options of y of the source in some order,
\* the same correct answer among them
StillResolvable(x, y) ==
    /\ SameMultiset(x.options, y.options)
    /\ x.correctAnswer = y.correctAnswer
    /\ Resolvable(x)

\* C25: after the load and after every restart, a session question whose
\* source question has its correctAnswer among its options offers a
\* permutation of those options with the same correctAnswer among them, and
\* so does every sub-question of a reading passage whose source sub-question
\* has its correctAnswer among its options.
C25_ResolvabilityPreserved ==
    QuizLoaded =>
        \A k \in 1..N : \A os \in {originalQuestions, fetched} :
            LET q == questions[k]
                o == SourceOf(q, os)
            IN  /\ \E x \in Range(os) : x.topic = q.topic
                /\ Resolvable(o) => StillResolvable(q, o)
                /\ Len(q.questions) = Len(o.questions)
                /\ \A i \in 1..Len(o.questions) :
                      Resolvable(o.questions[i]) => StillResolvable(q.questions[i], o.questions[i])

\* a restart has left the options of a multiple_choice or dropdown question
\* in the reverse of their order in the source
C25_Witness ==
    /\ lastOp = "restartQuiz"
    /\ \E k \in 1..N :
          LET q == questions[k]
              o == SourceOf(q, originalQuestions)
          IN  /\ q.type \in {"multiple_choice", "dropdown"}
              /\ Resolvable(o)
              /\ Len(o.options) >= 2
              /\ q.options = Reverse(o.options)
              /\ q.options # o.options

--------------------------------------------------------------------------
(* Load failure *)

\* no session has been constructed: the state is the one of script start
NoSession ==
    /\ questions = <<>>
    /\ userAnswers = <<>>
    /\ currentQuestionIndex = 0
    /\ score = 0
    /\ ~modalShown
    /\ scoreMessage = NoScoreMessage

--------------------------------------------------------------------------
(* The final score *)

\* C13: once the final score is shown, no operation other than restartQuiz
\* changes the answers, the current index or the score.
C13_FinishedLocks ==
    [][(modalShown /\ lastOp' # "restartQuiz") =>
          /\ userAnswers' = userAnswers
          /\ currentQuestionIndex' = currentQuestionIndex
          /\ score' = score]_vars

\* the feedback tiers, best first, with their inclusive lower bounds
Bands ==
    <<[from |-> 90, message |-> "Excellent work! You are doing great!"],
      [from |-> 70, message |-> "Good job! Keep practicing to improve."],
      [from |-> 50, message |-> "Not bad! There is room for improvement."],
      [from |-> 0,  message |-> "Keep studying! Practice makes perfect."]>>

\* p is 100 * s / n rounded to the nearest integer, a half rounded up
IsRounded(p, s, n) ==
    /\ 2 * n * p - n <= 200 * s
    /\ 200 * s < 2 * n * p + n

\* the message shown is the one of the first tier whose bound p reaches,
\* and of no other tier
IsBandOf(message, p) ==
    /\ \E b \in 1..Len(Bands) :
          /\ p >= Bands[b].from
          /\ \A a \in 1..(b - 1) : p < Bands[a].from
          /\ message = Bands[b].message
    /\ Cardinality({b \in 1..Len(Bands) : Bands[b].message = message}) = 1

\* C16: the percentage nextQuestion shows with the final score is
\* round(100 * score / N); the message is the one of the highest tier among
\* >= 90, >= 70, >= 50 and the rest that the percentage reaches, exactly one
\* tier for every score; and 7 of 10 gives 70 and the 'Good job' tier.
C16_PercentageAndBand ==
    (modalShown /\ lastOp = "nextQuestion") =>
        /\ score \in 0..N
        /\ IsRounded(scoreMessage.percentage, score, N)
        /\ IsBandOf(scoreMessage.message, scoreMessage.percentage)
        /\ (N = 10 /\ score = 7) =>
              /\ scoreMessage.percentage = 70
              /\ scoreMessage.message = Bands[2].message

--------------------------------------------------------------------------
(* Blank submissions *)

\* C14: a fill_in_the_blank question whose stored answer is absent, null or
\* blank is unanswered like a null slot: checkIfAnswered is false for it
\* exactly when setAnswer still accepts and stores a value for it.
C14_BlankIsUnanswered ==
    QuizLoaded =>
        \A k \in 1..N :
            questions[k].type = "fill_in_the_blank" =>
                (~CheckIfAnswered(questions, userAnswers, k - 1)
                    <=> ~AlreadySet(userAnswers, k - 1))

\* question q is of a known type and its controls offer an answer
Answerable(q) ==
    \/ q.type \in {"multiple_choice", "dropdown"} /\ Len(q.options) > 0
    \/ q.type = "reading_passage" /\ Len(q.questions) > 0
                                  /\ Len(q.questions[1].options) > 0
    \/ q.type = "fill_in_the_blank"
    \/ q.type = "drag_and_drop" /\ Len(q.correctOrder) > 0

\* the handlers still accept a submission for question k (from 1)
AcceptsSubmission(k) ==
    IF questions[k].type = "drag_and_drop"
    THEN \/ userAnswers[k] = Null
         \/ \E b \in 1..Len(userAnswers[k].arr) : userAnswers[k].arr[b] = Null
    ELSE ~AlreadySet(userAnswers, k - 1)

\* C15: in a session of answerable questions of known types the final score
\* stays reachable by submissions and navigation alone: every question from
\* the current one up to the last but one, which nextQuestion only leaves
\* when it is answered, is answered or still accepts a submission.
C15_StaysUsable ==
    (QuizLoaded /\ \A k \in 1..N : Answerable(questions[k])) =>
        \A k \in (currentQuestionIndex + 1)..(N - 1) :
            CheckIfAnswered(questions, userAnswers, k - 1) \/ AcceptsSubmission(k)

--------------------------------------------------------------------------
(* The answer evaluator *)

\* C17: whatever the handlers have stored, blank strings and partly filled
\* drag and drop arrays included, a question whose answer isCorrect accepts
\* is answered for checkIfAnswered; an unanswered question is never correct.
C17_CorrectImpliesAnswered ==
    QuizLoaded =>
        \A k \in 1..N :
            IsCorrect(questions, userAnswers, k - 1) =>
                CheckIfAnswered(questions, userAnswers, k - 1)

\* the last drop has completed a drag and drop answer that is correct, next
\* to states in which the array was partly filled
C17_Witness ==
    /\ QuizLoaded
    /\ lastOp = "drop"
    /\ ~ignored
    /\ CurrentQuestion.type = "drag_and_drop"
    /\ Len(CurrentQuestion.correctOrder) >= 2
    /\ IsCorrect(questions, userAnswers, currentQuestionIndex)

\* the types the answer rule names
KnownTypes ==
    {"multiple_choice", "dropdown", "reading_passage", "fill_in_the_blank",
     "drag_and_drop"}

\* the answer rule for question k (from 1), stated on the stored value
AnsweredAsSpecified(k) ==
    CASE questions[k].type \in {"multiple_choice", "dropdown", "reading_passage"} ->
            userAnswers[k] # Null
      [] questions[k].type = "fill_in_the_blank" ->
            /\ userAnswers[k] # Null
            /\ \E c \in 1..Len(userAnswers[k].str) : userAnswers[k].str[c] \notin WhiteSpace
      [] questions[k].type = "drag_and_drop" ->
            /\ userAnswers[k].kind = "array"
            /\ Len(userAnswers[k].arr) = Len(questions[k].correctOrder)
            /\ \A b \in 1..Len(userAnswers[k].arr) : userAnswers[k].arr[b] # Null

\* C18: for every question of a known type and every stored value,
\* checkIfAnswered is true exactly when: the value is non-null, for a choice
\* or reading question; it is a string with a character left after
\* trimming, for a fill-in question; it is an array as long as correctOrder
\* without a null slot, for a drag and drop question.  nextQuestion refuses
\* to leave a question before the last exactly when that is false.
C18_AnsweredPerType ==
    QuizLoaded =>
        /\ \A k \in 1..N :
              questions[k].type \in KnownTypes =>
                 (CheckIfAnswered(questions, userAnswers, k - 1) <=> AnsweredAsSpecified(k))
        /\ (/\ lastOp = "nextQuestion"
            /\ currentQuestionIndex < N - 1
            /\ CurrentQuestion.type \in KnownTypes) =>
                 (alerted <=> ~AnsweredAsSpecified(currentQuestionIndex + 1))

\* nextQuestion has refused to leave a fill-in question that holds blanks
C18_Witness ==
    /\ QuizLoaded
    /\ lastOp = "nextQuestion"
    /\ alerted
    /\ CurrentQuestion.type = "fill_in_the_blank"
    /\ userAnswers[currentQuestionIndex + 1] = Str(<<" ", " ">>)

--------------------------------------------------------------------------
(* Drag and drop placement *)

\* the slots of the stored drag and drop answer v, none before the first drop
Slots(v, n) == IF v = Null THEN ArrayOfNulls(n) ELSE v.arr

\* C20: placement is write-once per blank.  On every step other than a
\* restart, a slot of a drag_and_drop answer that holds a word keeps it, a
\* drop changes at most one slot and only of the current question, and
\* every other operation, nextQuestion and previousQuestion included,
\* leaves all slots as they are.
C20_PlacementWriteOnce ==
    [][ (QuizLoaded /\ lastOp' # "restartQuiz") =>
          \A k \in 1..N :
            questions[k].type = "drag_and_drop" =>
                LET n == Len(questions[k].correctOrder)
                    old == Slots(userAnswers[k], n)
                    new == Slots(userAnswers'[k], n)
                IN  /\ Len(new) = Len(old)
                    /\ \A b \in 1..n : old[b] # Null => new[b] = old[b]
                    /\ Cardinality({b \in 1..n : new[b] # old[b]}) <= 1
                    /\ (lastOp' # "drop" \/ k # currentQuestionIndex + 1) => new = old
      ]_vars

\* a drop on a blank that already holds a word has been refused while the
\* other blank of the question is still empty
C20_Witness ==
    /\ QuizLoaded
    /\ lastOp = "drop"
    /\ ignored
    /\ CurrentQuestion.type = "drag_and_drop"
    /\ \E b, c \in 1..Len(userAnswers[currentQuestionIndex + 1].arr) :
          /\ userAnswers[currentQuestionIndex + 1].arr[b] # Null
          /\ userAnswers[currentQuestionIndex + 1].arr[c] = Null

--------------------------------------------------------------------------
(* Correctness per question type *)

\* the number of questions of the session that the rule given counts as correct
CountWhere(rule(_)) == Cardinality({k \in 1..N : rule(k)})

\* the drag and drop rule for question k (from 1), stated on the stored value
OrderedAsSpecified(k) ==
    /\ questions[k].type = "drag_and_drop"
    /\ userAnswers[k].kind = "array"
    /\ Len(userAnswers[k].arr) = Len(questions[k].correctOrder)
    /\ \A i \in 1..Len(questions[k].correctOrder) :
          /\ userAnswers[k].arr[i].kind = "string"
          /\ userAnswers[k].arr[i].str = questions[k].correctOrder[i]

\* C21: for a drag_and_drop question isCorrect is true exactly when the
\* answer is an array as long as correctOrder that holds at every position
\* the word correctOrder has there; the same words in another order are
\* incorrect: for correctOrder [we, run], [run, we] is not counted and
\* [we, run] is.
C21_OrderSensitive ==
    QuizLoaded =>
        \A k \in 1..N :
            questions[k].type = "drag_and_drop" =>
                /\ IsCorrect(questions, userAnswers, k - 1) <=> OrderedAsSpecified(k)
                /\ lastOp = "nextQuestion" =>
                      (score = CountWhere(LAMBDA j : IsCorrect(questions, userAnswers, j - 1))
                         /\ (OrderedAsSpecified(k) => score >= 1))
                /\ (questions[k].correctOrder = <<w_we, w_run>>
                       /\ userAnswers[k] = Arr(<<Str(w_run), Str(w_we)>>)) =>
                      ~IsCorrect(questions, userAnswers, k - 1)
                /\ (questions[k].correctOrder = <<w_we, w_run>>
                       /\ userAnswers[k] = Arr(<<Str(w_we), Str(w_run)>>)) =>
                      IsCorrect(questions, userAnswers, k - 1)

\* the final score has been computed over an answer that holds the words of
\* correctOrder in the other order, and it counts nothing
C21_Witness ==
    /\ QuizLoaded
    /\ lastOp = "nextQuestion"
    /\ modalShown
    /\ questions[1].type = "drag_and_drop"
    /\ userAnswers[1] = Arr(Reverse([i \in 1..2 |-> Str(questions[1].correctOrder[i])]))
    /\ score = 0

\* s without the white space before its first and after its last other character
Core(s) ==
    LET inked == {k \in 1..Len(s) : s[k] \notin WhiteSpace}
        first == CHOOSE k \in inked : \A j \in inked : k <= j
        last == CHOOSE k \in inked : \A j \in inked : j <= k
    IN  IF inked = {} THEN <<>> ELSE SubSeq(s, first, last)

\* c and d are the same character or the two cases of one letter
SameLetter(c, d) ==
    \/ c = d
    \/ \E k \in 1..Len(UpperLetters) : {c, d} = {UpperLetters[k], LowerLetters[k]}

\* a and b are equal up to surrounding white space and letter case
EqualIgnoringCaseAndPadding(a, b) ==
    /\ Len(Core(a)) = Len(Core(b))
    /\ \A i \in 1..Len(Core(a)) : SameLetter(Core(a)[i], Core(b)[i])

\* C22: for a fill_in_the_blank question isCorrect is true exactly when the
\* stored answer equals correctAnswer up to surrounding white space and
\* letter case; what setAnswer stores carries no surrounding white space,
\* and a stored answer that equals correctAnswer in that sense is counted
\* in the score.
C22_FillInComparison ==
    QuizLoaded =>
        \A k \in 1..N :
            (questions[k].type = "fill_in_the_blank" /\ userAnswers[k] # Null) =>
                /\ IsCorrect(questions, userAnswers, k - 1)
                      <=> EqualIgnoringCaseAndPadding(userAnswers[k].str,
                                                      questions[k].correctAnswer)
                /\ (lastOp = "setAnswer" /\ k = currentQuestionIndex + 1) =>
                      /\ userAnswers[k].str = Core(userAnswers[k].str)
                      /\ EqualIgnoringCaseAndPadding(userAnswers[k].str,
                                                     questions[k].correctAnswer)
                            => score >= 1

\* setAnswer has stored cat, typed with a space on either side, for the
\* correct answer Cat, and the score counts it
C22_Witness ==
    /\ QuizLoaded
    /\ lastOp = "setAnswer"
    /\ ~ignored
    /\ CurrentQuestion.type = "fill_in_the_blank"
    /\ CurrentQuestion.correctAnswer = w_Cat
    /\ userAnswers[currentQuestionIndex + 1] = Str(<<"c", "a", "t">>)
    /\ IsCorrect(questions, userAnswers, currentQuestionIndex)
    /\ score >= 1

\* the rule of the choice and reading questions for question k (from 1),
\* stated on the stored value
ChosenAsSpecified(k) ==
    /\ userAnswers[k].kind = "string"
    /\ IF questions[k].type = "reading_passage"
       THEN /\ Len(questions[k].questions) >= 1
            /\ userAnswers[k].str = questions[k].questions[1].correctAnswer
       ELSE userAnswers[k].str = questions[k].correctAnswer

\* C23: for a multiple_choice or dropdown question isCorrect is true exactly
\* when the stored answer is the string correctAnswer; for a reading_passage
\* question exactly when it is the correctAnswer of the first sub-question,
\* whatever the other sub-questions hold, and never when the passage has no
\* sub-question.
C23_ChoiceComparison ==
    QuizLoaded =>
        \A k \in 1..N :
            questions[k].type \in {"multiple_choice", "dropdown", "reading_passage"} =>
                /\ IsCorrect(questions, userAnswers, k - 1) <=> ChosenAsSpecified(k)
                /\ (questions[k].type = "reading_passage" /\ Len(questions[k].questions) = 0)
                      => ~IsCorrect(questions, userAnswers, k - 1)
                /\ (lastOp = "nextQuestion" /\ ChosenAsSpecified(k)) => score >= 1

\* the final score has been computed over a reading passage answered with
\* the correct answer of its second sub-question, and it counts nothing
C23_Witness ==
    /\ QuizLoaded
    /\ lastOp = "nextQuestion"
    /\ modalShown
    /\ questions[1].type = "reading_passage"
    /\ Len(questions[1].questions) >= 2
    /\ userAnswers[1] = Str(questions[1].questions[2].correctAnswer)
    /\ questions[1].questions[2].correctAnswer # questions[1].questions[1].correctAnswer
    /\ score = 0

--------------------------------------------------------------------------
(* Frame of the handlers *)

\* C24: a selectOption or setAnswer call that is accepted finds the slot of
\* the current question null and writes that slot only: the index, the
\* questions, the source and every other slot stay as they are, and the
\* score rises by 1 when the stored value is correct for the question and
\* stays otherwise.
C24_SubmitFrame ==
    [][ (QuizLoaded /\ lastOp' \in {"selectOption", "setAnswer"} /\ ~ignored') =>
          /\ userAnswers[currentQuestionIndex + 1] = Null
          /\ userAnswers'[currentQuestionIndex + 1] # Null
          /\ Len(userAnswers') = Len(userAnswers)
          /\ \A k \in 1..N :
                k # currentQuestionIndex + 1 => userAnswers'[k] = userAnswers[k]
          /\ currentQuestionIndex' = currentQuestionIndex
          /\ questions' = questions
          /\ originalQuestions' = originalQuestions
          /\ score' = score + (IF IsCorrect(questions, userAnswers', currentQuestionIndex)
                               THEN 1 ELSE 0)
      ]_vars

\* selectOption has stored the correct option of the second question, a
\* multiple_choice or dropdown question, next to the answer of the first
C24_Witness ==
    /\ QuizLoaded
    /\ lastOp = "selectOption"
    /\ ~ignored
    /\ currentQuestionIndex = 1
    /\ userAnswers[1] # Null
    /\ CurrentQuestion.type \in {"multiple_choice", "dropdown"}
    /\ userAnswers[2] = Str(CurrentQuestion.correctAnswer)
    /\ score >= 1

--------------------------------------------------------------------------
(* Questions of an unknown type *)

\* C26: a question whose type is none of the five known ones is neither
\* answered nor correct whatever its slot holds, is not counted in the
\* score, and does not stop the session: nextQuestion is not refused on it,
\* so the final score stays reachable by advancing.
C26_UnknownTypeHarmless ==
    QuizLoaded =>
        \A k \in 1..N :
            questions[k].type \notin KnownTypes =>
                /\ ~CheckIfAnswered(questions, userAnswers, k - 1)
                /\ ~IsCorrect(questions, userAnswers, k - 1)
                /\ k \notin CorrectSet
                /\ k - 1 >= currentQuestionIndex =>
                      ~NavigationBlocked(questions, userAnswers, k - 1)

--------------------------------------------------------------------------
(* Navigation and the answers *)

\* C27: no question is skipped.  Every question before the current one is
\* answered for checkIfAnswered, and once the final score is shown every
\* question but the last is.
C27_NoQuestionSkipped ==
    QuizLoaded =>
        /\ \A k \in 1..currentQuestionIndex :
              CheckIfAnswered(questions, userAnswers, k - 1)
        /\ modalShown =>
              \A k \in 1..(N - 1) : CheckIfAnswered(questions, userAnswers, k - 1)

\* the final score is shown for two questions of which the first is answered
\* and the last is not
C27_Witness ==
    /\ QuizLoaded
    /\ modalShown
    /\ lastOp = "nextQuestion"
    /\ N = 2
    /\ currentQuestionIndex = 1
    /\ CheckIfAnswered(questions, userAnswers, 0)
    /\ userAnswers[2] = Null

\* C28: once a quiz is loaded userAnswers has one slot per question of the
\* session; the slot of a drag_and_drop question is null or an array with as
\* many slots as correctOrder has words, the slot of any other question is
\* null or a string; and no handler writes a slot other than the one of the
\* current question (restartQuiz replaces the whole array by nulls).
C28_SlotsParallel ==
    /\ [](QuizLoaded =>
            /\ Len(userAnswers) = N
            /\ \A k \in 1..N :
                  \/ userAnswers[k] = Null
                  \/ IF questions[k].type = "drag_and_drop"
                     THEN /\ userAnswers[k].kind = "array"
                          /\ Len(userAnswers[k].arr) = Len(questions[k].correctOrder)
                     ELSE userAnswers[k].kind = "string")
    /\ [][ QuizLoaded =>
              IF lastOp' = "restartQuiz"
              THEN userAnswers' = ArrayOfNulls(Len(questions'))
              ELSE \A k \in 1..N :
                      k # currentQuestionIndex + 1 => userAnswers'[k] = userAnswers[k]
         ]_vars

\* a drop has filled one of the two slots of the second question while the
\* first question holds its answer
C28_Witness ==
    /\ QuizLoaded
    /\ lastOp = "drop"
    /\ ~ignored
    /\ currentQuestionIndex = 1
    /\ userAnswers[1] # Null
    /\ userAnswers[2].kind = "array"
    /\ \E b, c \in 1..Len(userAnswers[2].arr) :
          userAnswers[2].arr[b] # Null /\ userAnswers[2].arr[c] = Null

\* the questions of the session that checkIfAnswered takes as answered
AnsweredSet == {k \in 1..N : CheckIfAnswered(questions, userAnswers, k - 1)}

\* C29: between a load or restart and the next restart the score never
\* falls: every selectOption, setAnswer, drop, nextQuestion and
\* previousQuestion leaves it as it is or raises it by 1, drops that fill a
\* question blank by blank included; and always
\* 0 <= score <= number of answered questions <= N.
C29_ScoreMonotone ==
    /\ [](QuizLoaded =>
            /\ 0 <= score
            /\ score <= Cardinality(AnsweredSet)
            /\ Cardinality(AnsweredSet) <= N)
    /\ [][ (QuizLoaded /\ lastOp' # "restartQuiz") =>
              /\ score' \in {score, score + 1}
              /\ lastOp' \in {"nextQuestion", "previousQuestion"} => score' = score
         ]_vars

\* a drop has filled the first of two blanks while the score, earned on
\* the other question, stays 1
C29_Witness ==
    /\ QuizLoaded
    /\ lastOp = "drop"
    /\ ~ignored
    /\ score = 1
    /\ CurrentQuestion.type = "drag_and_drop"
    /\ currentQuestionIndex + 1 \notin AnsweredSet
    /\ Cardinality(AnsweredSet) = 1

==========================================================================
